---- MODULE Spec2Model ----
(***************************************************************************)
(* The request pipeline of the Hono task API: the middleware chain built   *)
(* by createApp, the routers mounted under /api, the documentation routes  *)
(* of configureOpenAPI, and the task table with its zod shapes.            *)
(***************************************************************************)
EXTENDS Integers, Sequences, FiniteSets, TLC

VARIABLES tasks, seq, now, req, served

vars == <<tasks, seq, now, req, served>>

(***************************************************************************)
(* Bounds of the model.                                                    *)
(***************************************************************************)
\* number of requests the server takes in
MaxRequests == 3
\* last reading of the database clock
MaxClock == 1

\* the request slots of the server, and the one slot of a server that takes
\* its requests one after the other
AllReqs == {"r1", "r2"}
Reqs == {"r1"}

(***************************************************************************)
(* JSON values of a request body.  Strings are sequences of characters so  *)
(* that their length is computed, not assumed.                             *)
(***************************************************************************)
Absent == [type |-> "absent", s |-> <<>>, b |-> FALSE, n |-> 0]
JNull == [type |-> "null", s |-> <<>>, b |-> FALSE, n |-> 0]
JString(str) == [type |-> "string", s |-> str, b |-> FALSE, n |-> 0]
JBool(v) == [type |-> "boolean", s |-> <<>>, b |-> v, n |-> 0]
JNum(k) == [type |-> "number", s |-> <<>>, b |-> FALSE, n |-> k]

\* varchar("name", { length: 255 })
NameMaxLen == 255

LongName == [i \in 1..(NameMaxLen + 1) |-> "x"]

\* an id no serial value of the model reaches, as a client would send it
ClientId == MaxRequests + 5

Keys == {"id", "name", "completed", "createdAt", "updatedAt"}

\* a JSON object: every key is absent or carries a value
Object(nm, cp, idv, st) ==
  [k \in Keys |->
     CASE k = "name" -> nm
       [] k = "completed" -> cp
       [] k = "id" -> idv
       [] OTHER -> st]

\* the bodies a client sends: with and without each updatable field, with
\* values of the wrong type or length, and with the server-generated fields
Bodies ==
  { Object(Absent, Absent, Absent, Absent),
    Object(JString(<<"a">>), Absent, Absent, Absent),
    Object(JString(<<"b">>), Absent, Absent, Absent),
    Object(Absent, JBool(TRUE), Absent, Absent),
    Object(Absent, JBool(FALSE), Absent, Absent),
    Object(JString(<<"b">>), JBool(TRUE), Absent, Absent),
    Object(JString(LongName), Absent, Absent, Absent),
    Object(JNull, JBool(TRUE), Absent, Absent),
    Object(JString(<<"a">>), JString(<<"y">>), Absent, Absent),
    Object(Absent, Absent, JNum(ClientId), JString(<<"t">>)),
    Object(JString(<<"a">>), Absent, JNum(ClientId), Absent),
    Object(Absent, JBool(TRUE), JNum(ClientId), Absent),
    Object(JString(<<"a">>), Absent, Absent, JString(<<"t">>)) }

EmptyObject == [k \in Keys |-> Absent]

\* Object.keys(body)
ObjectKeys(body) == {k \in Keys : body[k] # Absent}

(***************************************************************************)
(* The tasks table and the zod shapes derived from it.                     *)
(***************************************************************************)
\* the table with .notNull() left off the name column
TasksTableNameNullable ==
  [k \in Keys |->
     CASE k = "id" -> [type |-> "number", notNull |-> TRUE, hasDefault |-> TRUE, max |-> 0]
       [] k = "name" -> [type |-> "string", notNull |-> FALSE, hasDefault |-> FALSE, max |-> NameMaxLen]
       [] k = "completed" -> [type |-> "boolean", notNull |-> TRUE, hasDefault |-> TRUE, max |-> 0]
       [] OTHER -> [type |-> "date", notNull |-> TRUE, hasDefault |-> TRUE, max |-> 0]]

\* pgTable("tasks", {...}): type, NOT NULL, default, length of each column
tasksTable ==
  [k \in Keys |->
     CASE k = "id" -> [type |-> "number", notNull |-> TRUE, hasDefault |-> TRUE, max |-> 0]
       [] k = "name" -> [type |-> "string", notNull |-> TRUE, hasDefault |-> FALSE, max |-> NameMaxLen]
       [] k = "completed" -> [type |-> "boolean", notNull |-> TRUE, hasDefault |-> TRUE, max |-> 0]
       [] OTHER -> [type |-> "date", notNull |-> TRUE, hasDefault |-> TRUE, max |-> 0]]

\* an insert shape that requires every NOT NULL column, defaults or not
CreateInsertSchemaAllRequired(table) ==
  [k \in DOMAIN table |->
     [type |-> table[k].type,
      required |-> table[k].notNull,
      nullable |-> ~table[k].notNull,
      max |-> table[k].max]]

\* drizzle-zod: a column is required on insert when it is NOT NULL and has
\* no default; a nullable column also accepts null
createInsertSchema(table) ==
  [k \in DOMAIN table |->
     [type |-> table[k].type,
      required |-> table[k].notNull /\ ~table[k].hasDefault,
      nullable |-> ~table[k].notNull,
      max |-> table[k].max]]

\* z.object(...).omit({...})
Omit(schema, ks) == [k \in (DOMAIN schema) \ ks |-> schema[k]]

\* z.object(...).partial()
Partial(schema) == [k \in DOMAIN schema |-> [schema[k] EXCEPT !.required = FALSE]]

\* createInsertSchema(tasks).omit({ id, createdAt, updatedAt })
insertTasksSchema == Omit(createInsertSchema(tasksTable), {"id", "createdAt", "updatedAt"})

\* the update shape without .partial()
PatchSchemaNotPartial == insertTasksSchema

\* insertTasksSchema.partial()
patchTasksSchema == Partial(insertTasksSchema)

\* one field against its zod type
FieldOk(f, v) ==
  IF v = Absent THEN ~f.required
  ELSE IF v = JNull THEN f.nullable
  ELSE /\ v.type = f.type
       /\ (f.type = "string" /\ f.max > 0) => Len(v.s) <= f.max

\* schema.safeParse(body).success
SafeParseOk(schema, body) == \A k \in DOMAIN schema : FieldOk(schema[k], body[k])

\* schema.safeParse(body).data: a z.object strips the keys it does not declare
SafeParseData(schema, body) ==
  [k \in Keys |-> IF k \in DOMAIN schema THEN body[k] ELSE Absent]

(***************************************************************************)
(* Requests, paths and the route table.  A path is its sequence of         *)
(* segments; the routers are built with strict: false, so a trailing       *)
(* slash does not count.                                                   *)
(***************************************************************************)
\* the server takes any method: the methods the routes are registered for,
\* OPTIONS and HEAD, which the framework treats on their own, and PUT for the
\* methods no route is registered for
Methods == {"GET", "POST", "PATCH", "DELETE", "PUT", "OPTIONS", "HEAD"}

\* app.fetch dispatches a HEAD request as a GET
DispatchMethod(method) == IF method = "HEAD" THEN "GET" ELSE method

Paths ==
  { <<"favicon.ico">>, <<"api">>, <<"api", "tasks">>,
    <<"api", "tasks", "1">>, <<"api", "tasks", "2">>, <<"api", "tasks", "x">>,
    <<"api", "auth">>, <<"api", "auth", "sign-in">>, <<"api", "auth", "tasks", "1">>,
    <<"doc">>, <<"reference">>, <<"llms">>, <<"llms.txt">>, <<"nope">> }

AuthPrefix == <<"api", "auth">>

\* the path lies under /api/auth
IsAuthPath(path) == Len(path) >= Len(AuthPrefix) /\ SubSeq(path, 1, Len(AuthPrefix)) = AuthPrefix

\* a {id} / :id segment of a route pattern
IsParam(seg) == seg = ":id"

\* the router's match of a registered pattern against a request path:
\* literal segments are equal, a parameter takes one segment, a trailing *
\* takes whatever is left, nothing included
RECURSIVE PathMatch(_, _)
PathMatch(pat, path) ==
  IF pat = <<>> THEN path = <<>>
  ELSE IF Head(pat) = "*" /\ Len(pat) = 1 THEN TRUE
  ELSE IF path = <<>> THEN FALSE
  ELSE /\ (IsParam(Head(pat)) \/ Head(pat) = "*" \/ Head(pat) = Head(path))
       /\ PathMatch(Tail(pat), Tail(path))

\* the auth routes registered ahead of the session middleware
AppMiddlewareAuthFirst ==
  << [methods |-> Methods, pat |-> <<"*">>, h |-> "favicon"],
     [methods |-> Methods, pat |-> <<"*">>, h |-> "logger"],
     [methods |-> Methods, pat |-> <<"api", "auth", "*">>, h |-> "cors"],
     [methods |-> {"POST", "GET"}, pat |-> <<"api", "auth", "*">>, h |-> "auth"],
     [methods |-> Methods, pat |-> <<"*">>, h |-> "session"] >>

\* createApp: app.use / app.on in the order of registration
AppMiddleware ==
  << [methods |-> Methods, pat |-> <<"*">>, h |-> "favicon"],
     [methods |-> Methods, pat |-> <<"*">>, h |-> "logger"],
     [methods |-> Methods, pat |-> <<"api", "auth", "*">>, h |-> "cors"],
     [methods |-> Methods, pat |-> <<"*">>, h |-> "session"],
     [methods |-> {"POST", "GET"}, pat |-> <<"api", "auth", "*">>, h |-> "auth"] >>

\* routes/index.routes.ts: GET /
indexRouter ==
  << [methods |-> {"GET"}, pat |-> <<>>, h |-> "index"] >>

\* routes/tasks/tasks.index.ts: the five task routes
tasksRouter ==
  << [methods |-> {"GET"}, pat |-> <<"tasks">>, h |-> "list"],
     [methods |-> {"POST"}, pat |-> <<"tasks">>, h |-> "create"],
     [methods |-> {"GET"}, pat |-> <<"tasks", ":id">>, h |-> "getOne"],
     [methods |-> {"PATCH"}, pat |-> <<"tasks", ":id">>, h |-> "patch"],
     [methods |-> {"DELETE"}, pat |-> <<"tasks", ":id">>, h |-> "remove"] >>

\* app.route(prefix, router): the router's routes under the prefix
Route(prefix, router) ==
  [k \in 1..Len(router) |-> [router[k] EXCEPT !.pat = prefix \o @]]

\* configureOpenAPI: /doc, /reference, /llms, /llms.txt
OpenAPIRoutes ==
  << [methods |-> {"GET"}, pat |-> <<"doc">>, h |-> "doc"],
     [methods |-> {"GET"}, pat |-> <<"reference">>, h |-> "reference"],
     [methods |-> {"GET"}, pat |-> <<"llms">>, h |-> "llms"],
     [methods |-> {"GET"}, pat |-> <<"llms.txt">>, h |-> "llmsTxt"] >>

\* the routers mounted under /api/auth instead of /api
RegisteredUnderAuth ==
  AppMiddleware \o Route(<<"api", "auth">>, indexRouter)
    \o Route(<<"api", "auth">>, tasksRouter) \o OpenAPIRoutes

\* index.ts: createApp(), then the routers under /api, then configureOpenAPI
Registered ==
  AppMiddleware \o Route(<<"api">>, indexRouter) \o Route(<<"api">>, tasksRouter)
    \o OpenAPIRoutes

MiddlewareNames == {"favicon", "logger", "cors", "session"}
RouterHandlers == {"index", "list", "create", "getOne", "patch", "remove"}
TaskHandlers == RouterHandlers \ {"index"}
DocHandlers == {"doc", "reference", "llms", "llmsTxt"}

IsMatch(entry, method, path) == method \in entry.methods /\ PathMatch(entry.pat, path)

\* router.match(method, path): the handlers the router hands to the
\* dispatcher, in registration order
Matched(method, path) ==
  LET es == SelectSeq(Registered, LAMBDA e : IsMatch(e, method, path))
  IN  [k \in 1..Len(es) |-> es[k].h]

\* whether a route (not a middleware) is registered for the request
HasRoute(method, path) ==
  \E k \in 1..Len(Registered) :
     /\ Registered[k].h \notin MiddlewareNames
     /\ IsMatch(Registered[k], DispatchMethod(method), path)

(***************************************************************************)
(* The persistence store: the rows of the tasks table (tasks), the last    *)
(* value of the serial sequence of its primary key (seq) and the last      *)
(* reading of the database clock (now).                                    *)
(***************************************************************************)
\* serial("id"): the next value of the sequence
Serial(s) == s + 1

\* the default of a column: serial, .default(false), .defaultNow()
ColumnDefault(k, s, clock) ==
  CASE k = "id" -> JNum(Serial(s))
    [] k = "completed" -> JBool(FALSE)
    [] k \in {"createdAt", "updatedAt"} -> JNum(clock)
    [] OTHER -> JNull

\* the row INSERT writes for the validated values: a column the values leave
\* out takes its default, or NULL when it has none
InsertRow(values, s, clock) ==
  [k \in Keys |->
     IF values[k] # Absent THEN values[k]
     ELSE IF tasksTable[k].hasDefault THEN ColumnDefault(k, s, clock)
     ELSE JNull]

\* .notNull(): the table refuses a row with NULL in such a column
NotNullOk(row) == \A k \in Keys : tasksTable[k].notNull => row[k] # JNull

\* the row UPDATE ... SET leaves for the validated updates: a column the
\* updates leave out keeps its value; the defaults of the table apply to
\* INSERT only, and no column declares a value on update
UpdateRow(row, updates) ==
  [k \in Keys |-> IF updates[k] # Absent THEN updates[k] ELSE row[k]]

\* the id parameter of /tasks/{id}: a positive integer, or 0 when it is none
IdParam(path) ==
  LET seg == path[Len(path)]
  IN  CASE seg = "1" -> 1 [] seg = "2" -> 2 [] seg = "3" -> 3 [] OTHER -> 0

(***************************************************************************)
(* The context of a request and its response.                              *)
(***************************************************************************)
NoResponse == [status |-> 0, body |-> "none", ctype |-> "none", cors |-> FALSE, data |-> {}]

Response(status, body, ctype, data) ==
  [status |-> status, body |-> body, ctype |-> ctype, cors |-> FALSE, data |-> data]

\* matched: the handlers matched for the request, i: the next of them to
\* run; trace: the handlers the dispatcher has entered, in order;
\* sessionOut, sessionData, authRes, out: what the collaborators gave back to
\* this request; body: the JSON body its handler read; rows: what the store
\* returned for the statement of its handler
NoSessionData == [kind |-> "none", user |-> "unset", session |-> "unset", status |-> 0]

Idle ==
  [pc |-> "idle", method |-> "GET", path |-> <<>>, matched |-> <<>>, i |-> 0,
   trace |-> <<>>,
   logger |-> FALSE, cors |-> FALSE, user |-> "unset", session |-> "unset",
   sessionOut |-> "none", sessionData |-> NoSessionData,
   authRes |-> NoResponse, out |-> "none",
   body |-> EmptyObject, rows |-> {}, err |-> 0, res |-> NoResponse]

\* app.fetch(request): a fresh context at the head of the matched handlers
NewContext(method, path) ==
  [Idle EXCEPT !.pc = "run", !.method = method, !.path = path,
               !.matched = Matched(DispatchMethod(method), path), !.i = 1]

\* the handler the dispatcher runs next; past the last one, the not-found
\* producer
Current(c) == IF c.i <= Len(c.matched) THEN c.matched[c.i] ELSE "notFound"

\* the dispatcher enters a handler
Enter(c, h) == [c EXCEPT !.trace = Append(@, h)]

\* await next()
CallNext(c) == [c EXCEPT !.i = @ + 1]

\* the handlers the dispatcher has entered for the request, and the last one
Entered(c, h) == \E k \in 1..Len(c.trace) : c.trace[k] = h

LastEntered(c) == IF c.trace = <<>> THEN "none" ELSE c.trace[Len(c.trace)]

\* the response app.fetch gives back: for a HEAD request, the status and the
\* headers of the response of the GET dispatch, without its body
Sent(method, res) ==
  IF method = "HEAD" THEN [res EXCEPT !.body = "none", !.data = {}] ELSE res

\* a handler returns a response: c.res takes it, with the headers already
\* set on the context carried over
Respond(c, res) ==
  [c EXCEPT !.pc = "done", !.res = Sent(c.method, [res EXCEPT !.cors = c.cors])]

\* a handler throws: the dispatcher hands the error to app.onError; err is
\* the status the error carries, 0 when it carries none
Throw(c, err) == [c EXCEPT !.pc = "error", !.err = err]

(***************************************************************************)
(* The external collaborators.                                             *)
(***************************************************************************)
\* what auth.api.getSession resolves to: a user/session pair, or null; it
\* may also reject
SessionData ==
  { [kind |-> "data", user |-> "alice", session |-> "s-alice", status |-> 0],
    [kind |-> "data", user |-> "bob", session |-> "s-bob", status |-> 0] }

\* the status an error of the auth collaborator carries: none (0), or one of
\* its own
ErrorStatuses == {0, 503}

GetSessionOutcomes ==
  SessionData
    \cup { [kind |-> "null", user |-> "null", session |-> "null", status |-> 0] }
    \cup { [kind |-> "throws", user |-> "null", session |-> "null", status |-> e] :
             e \in ErrorStatuses }

\* what auth.handler answers: opaque to the application
AuthResponses ==
  { Response(200, "auth-ok", "application/json", {}),
    Response(401, "auth-denied", "application/json", {}) }

\* the promise of auth.handler rejects: there is no response, and the
\* error carries a status or none
AuthRejects == {[NoResponse EXCEPT !.body = "rejects", !.status = e] : e \in ErrorStatuses}

\* how the promise of auth.handler settles
AuthOutcomes == AuthResponses \cup AuthRejects

(***************************************************************************)
(* Init and the arrival of a request.                                      *)
(***************************************************************************)
Init ==
  /\ tasks = {}
  /\ seq = 0
  /\ now = 0
  /\ req = [r \in AllReqs |-> Idle]
  /\ served = 0

\* now(): the readings the database clock may give a statement; it never
\* goes back behind the reading it gave last
Now == {t \in now..(now + 1) : t <= MaxClock}

\* serve({ fetch: app.fetch }): a request arrives on a free slot
Receive(r) ==
  /\ req[r].pc \in {"idle", "done"}
  /\ served < MaxRequests
  /\ served' = served + 1
  /\ \E method \in Methods, path \in Paths :
        req' = [req EXCEPT ![r] = NewContext(method, path)]
  /\ UNCHANGED <<tasks, seq, now>>

(***************************************************************************)
(* The middleware of createApp.                                            *)
(***************************************************************************)
Running(r, h) == req[r].pc = "run" /\ Current(req[r]) = h

\* serveEmojiFavicon: answers /favicon.ico itself, passes everything else on
FaviconStep(c) ==
  IF c.path = <<"favicon.ico">>
  THEN Respond(c, Response(200, "favicon", "image/svg+xml", {}))
  ELSE CallNext(c)

ServeEmojiFavicon(r) ==
  /\ Running(r, "favicon")
  /\ req' = [req EXCEPT ![r] = FaviconStep(Enter(req[r], "favicon"))]
  /\ UNCHANGED <<tasks, seq, now, served>>

\* pinoLogger: attaches the request logger and passes on
PinoLogger(r) ==
  /\ Running(r, "logger")
  /\ req' = [req EXCEPT ![r] =
               CallNext([Enter(req[r], "logger") EXCEPT !.logger = TRUE])]
  /\ UNCHANGED <<tasks, seq, now, served>>

\* cors({...}): sets the cross-origin headers on the context; a preflight
\* (OPTIONS) is answered 204 at once, anything else is passed on
CorsStep(c) ==
  LET d == [c EXCEPT !.cors = TRUE]
  IN  IF d.method = "OPTIONS"
      THEN Respond(d, Response(204, "none", "none", {}))
      ELSE CallNext(d)

Cors(r) ==
  /\ Running(r, "cors")
  /\ req' = [req EXCEPT ![r] = CorsStep(Enter(req[r], "cors"))]
  /\ UNCHANGED <<tasks, seq, now, served>>

\* session middleware, up to its await: auth.api.getSession is called
SessionBegin(r) ==
  /\ Running(r, "session")
  /\ req' = [req EXCEPT ![r] = [Enter(req[r], "session") EXCEPT !.pc = "getSession"]]
  /\ UNCHANGED <<tasks, seq, now, served>>

\* a middleware that sets user alone when there is no session
SessionStepUserOnly(c, sessionData) ==
  LET d == [c EXCEPT !.sessionData = sessionData]
  IN  IF sessionData.kind = "throws"
      THEN Throw([d EXCEPT !.sessionOut = "throws"], sessionData.status)
      ELSE IF sessionData.kind = "null"
      THEN CallNext([d EXCEPT !.pc = "run", !.sessionOut = "null", !.user = "null"])
      ELSE CallNext([d EXCEPT !.pc = "run", !.sessionOut = "data",
                              !.user = sessionData.user, !.session = sessionData.session])

\* session middleware, from its await on: a rejection propagates (nothing
\* catches it); otherwise user and session are set and next() is called
SessionStep(c, sessionData) ==
  LET d == [c EXCEPT !.sessionData = sessionData]
  IN  IF sessionData.kind = "throws"
      THEN Throw([d EXCEPT !.sessionOut = "throws"], sessionData.status)
      ELSE IF sessionData.kind = "null"
      THEN CallNext([d EXCEPT !.pc = "run", !.sessionOut = "null",
                              !.user = "null", !.session = "null"])
      ELSE CallNext([d EXCEPT !.pc = "run", !.sessionOut = "data",
                              !.user = sessionData.user, !.session = sessionData.session])

\* a middleware that keeps user and session in variables of createApp, which
\* every request in flight reads, instead of in the context of its request
SessionResumeShared(r) ==
  /\ req[r].pc = "getSession"
  /\ \E sessionData \in GetSessionOutcomes :
        req' = [q \in AllReqs |->
                  IF q = r THEN SessionStep(req[q], sessionData)
                  ELSE IF sessionData.kind = "throws" \/ req[q].pc = "idle" THEN req[q]
                  ELSE [req[q] EXCEPT !.user = sessionData.user,
                                      !.session = sessionData.session]]
  /\ UNCHANGED <<tasks, seq, now, served>>

\* the continuation of the session middleware of request r, when its
\* getSession settles: c.set writes to the context of that request
SessionResume(r) ==
  /\ req[r].pc = "getSession"
  /\ \E sessionData \in GetSessionOutcomes :
        req' = [req EXCEPT ![r] = SessionStep(req[r], sessionData)]
  /\ UNCHANGED <<tasks, seq, now, served>>

\* app.on(["POST", "GET"], "/api/auth/*"): the response of auth.handler
AuthStep(c, res) == Respond(c, res)

\* the handler calls auth.handler(c.req.raw) and returns its promise, still
\* pending, to the dispatcher
AuthRoute(r) ==
  /\ Running(r, "auth")
  /\ req' = [req EXCEPT ![r] = [Enter(req[r], "auth") EXCEPT !.pc = "authHandler"]]
  /\ UNCHANGED <<tasks, seq, now, served>>

\* the promise settles: its response is the response of the request; a
\* rejection propagates to the dispatcher (nothing catches it)
AuthSettle(r) ==
  /\ req[r].pc = "authHandler"
  /\ \E outcome \in AuthOutcomes :
        LET c == [req[r] EXCEPT !.authRes = outcome]
        IN  req' = [req EXCEPT ![r] =
                      IF outcome \in AuthRejects THEN Throw(c, outcome.status)
                      ELSE AuthStep(c, outcome)]
  /\ UNCHANGED <<tasks, seq, now, served>>

\* the router's built-in answer, as without app.notFound(notFound)
DefaultNotFound == Response(404, "404 Not Found", "text/plain", {})

\* app.notFound(notFound): the uniform body, once no handler has answered
NotFoundResponse == Response(404, "Not Found - path", "application/json", {})

NotFound(r) ==
  /\ Running(r, "notFound")
  /\ req' = [req EXCEPT ![r] =
               Respond(Enter(req[r], "notFound"), NotFoundResponse)]
  /\ UNCHANGED <<tasks, seq, now, served>>

\* onError: the status of the error when it carries one other than 200,
\* else 500
ErrorStatus(err) == IF err # 0 /\ err # 200 THEN err ELSE 500

\* app.onError(onError): the uniform error body
OnError(r) ==
  /\ req[r].pc = "error"
  /\ req' = [req EXCEPT ![r] =
               Respond(Enter(req[r], "onError"),
                       Response(ErrorStatus(req[r].err), "error", "application/json", {}))]
  /\ UNCHANGED <<tasks, seq, now, served>>

(***************************************************************************)
(* The routers mounted under /api.                                         *)
(***************************************************************************)
ZodError == Response(422, "zod-error", "application/json", {})

\* ZOD_ERROR_CODES.INVALID_UPDATES / ZOD_ERROR_MESSAGES.NO_UPDATES
InvalidUpdates == Response(422, "invalid_updates: No updates provided", "application/json", {})

HandlerNotFound == Response(404, "Not Found", "application/json", {})

TaskJson(rows) == Response(200, "task", "application/json", rows)

RowsById(id) == {t \in tasks : t["id"] = JNum(id)}

\* index route: the API metadata
IndexRoute(r) ==
  /\ Running(r, "index")
  /\ req' = [req EXCEPT ![r] =
               Respond(Enter(req[r], "index"),
                       Response(200, "Tasks API", "application/json", {}))]
  /\ UNCHANGED <<tasks, seq, now, served>>

\* a handler issues its statement and is suspended at the await of it
Issue(c) == [c EXCEPT !.pc = "store"]

\* the store has executed the statement; its rows wait for the handler
Executed(c, rows) == [c EXCEPT !.pc = "stored", !.rows = rows]

\* the promise of the statement rejects (the connection is lost, say): no
\* handler catches it, so the error goes to the dispatcher; an error of the
\* database driver carries no status
Rejected(c) == Throw([c EXCEPT !.out = "store-rejects"], 0)

\* the statement of handler h of request r is pending at the store
Pending(r, h) == req[r].pc = "store" /\ LastEntered(req[r]) = h

\* the handler h of request r resumes with the rows the store returned
Resumed(r, h) == req[r].pc = "stored" /\ LastEntered(req[r]) = h

\* list: issues the select of every row
List(r) ==
  /\ Running(r, "list")
  /\ req' = [req EXCEPT ![r] = Issue(Enter(req[r], "list"))]
  /\ UNCHANGED <<tasks, seq, now, served>>

\* getOne: a validated id, then the select of its row
GetOne(r) ==
  /\ Running(r, "getOne")
  /\ LET c == Enter(req[r], "getOne")
     IN  req' = [req EXCEPT ![r] =
                   IF IdParam(c.path) = 0 THEN Respond(c, ZodError) ELSE Issue(c)]
  /\ UNCHANGED <<tasks, seq, now, served>>

\* the store executes the SELECT of list or getOne, or its promise rejects
Select(r) ==
  /\ \/ Pending(r, "list") /\ req' = [req EXCEPT ![r] = Executed(req[r], tasks)]
     \/ /\ Pending(r, "getOne")
        /\ req' = [req EXCEPT ![r] = Executed(req[r], RowsById(IdParam(req[r].path)))]
     \/ /\ Pending(r, "list") \/ Pending(r, "getOne")
        /\ req' = [req EXCEPT ![r] = Rejected(req[r])]
  /\ UNCHANGED <<tasks, seq, now, served>>

\* list resumes: every row it was given
ListResume(r) ==
  /\ Resumed(r, "list")
  /\ req' = [req EXCEPT ![r] =
               Respond(req[r], Response(200, "tasks", "application/json", req[r].rows))]
  /\ UNCHANGED <<tasks, seq, now, served>>

\* getOne resumes: the row, or not found
GetOneResume(r) ==
  /\ Resumed(r, "getOne")
  /\ req' = [req EXCEPT ![r] =
               IF req[r].rows = {} THEN Respond(req[r], HandlerNotFound)
               ELSE Respond(req[r], TaskJson(req[r].rows))]
  /\ UNCHANGED <<tasks, seq, now, served>>

\* create, from the arrival of the body to its await: c.req.valid("json"),
\* db.insert(tasks).values(task).returning() is issued.  A body the create
\* shape refuses is answered by the validation hook and the handler does
\* not run.
CreateOf(r, bodies) ==
  /\ Running(r, "create")
  /\ \E body \in bodies :
        LET c == [Enter(req[r], "create") EXCEPT !.body = body]
        IN  req' = [req EXCEPT ![r] =
                      IF ~SafeParseOk(insertTasksSchema, body) THEN Respond(c, ZodError)
                      ELSE Issue(c)]
  /\ UNCHANGED <<tasks, seq, now, served>>

Create(r) == CreateOf(r, Bodies)

\* the store executes the INSERT ... RETURNING of create: the new row, or an
\* error when the table refuses it; or the promise of the statement rejects
\* with nothing written
Insert(r) ==
  /\ Pending(r, "create")
  /\ \/ \E clock \in Now :
          LET task == SafeParseData(insertTasksSchema, req[r].body)
              row == InsertRow(task, seq, clock)
          IN  IF ~NotNullOk(row) \/ RowsById(row["id"].n) # {}
              THEN /\ req' = [req EXCEPT ![r] = Throw(req[r], 0)]
                   /\ UNCHANGED <<tasks, seq, now>>
              ELSE /\ tasks' = tasks \cup {row}
                   /\ seq' = IF task["id"] = Absent THEN Serial(seq) ELSE seq
                   /\ now' = clock
                   /\ req' = [req EXCEPT ![r] = Executed(req[r], {row})]
     \/ /\ req' = [req EXCEPT ![r] = Rejected(req[r])]
        /\ UNCHANGED <<tasks, seq, now>>
  /\ UNCHANGED served

\* create resumes: c.json(inserted, OK)
CreateResume(r) ==
  /\ Resumed(r, "create")
  /\ req' = [req EXCEPT ![r] = Respond(req[r], TaskJson(req[r].rows))]
  /\ UNCHANGED <<tasks, seq, now, served>>

\* patch, from the arrival of the body to its await: validated id and
\* updates; no update at all is refused before the store is called;
\* otherwise the update is issued
Patch(r) ==
  /\ Running(r, "patch")
  /\ \E body \in Bodies :
        LET c == [Enter(req[r], "patch") EXCEPT !.body = body]
            updates == SafeParseData(patchTasksSchema, body)
        IN  req' = [req EXCEPT ![r] =
                      IF IdParam(c.path) = 0 \/ ~SafeParseOk(patchTasksSchema, body)
                      THEN Respond(c, ZodError)
                      ELSE IF ObjectKeys(updates) = {} THEN Respond(c, InvalidUpdates)
                      ELSE Issue(c)]
  /\ UNCHANGED <<tasks, seq, now, served>>

\* the store executes the UPDATE ... RETURNING of patch, or its promise
\* rejects with nothing written
Update(r) ==
  /\ Pending(r, "patch")
  /\ \/ LET id == IdParam(req[r].path)
            updates == SafeParseData(patchTasksSchema, req[r].body)
        IN  /\ tasks' = {IF t["id"] = JNum(id) THEN UpdateRow(t, updates) ELSE t : t \in tasks}
            /\ req' = [req EXCEPT ![r] =
                         Executed(req[r], {UpdateRow(t, updates) : t \in RowsById(id)})]
     \/ /\ req' = [req EXCEPT ![r] = Rejected(req[r])]
        /\ UNCHANGED tasks
  /\ UNCHANGED <<seq, now, served>>

\* patch resumes: the updated row, or not found
PatchResume(r) ==
  /\ Resumed(r, "patch")
  /\ req' = [req EXCEPT ![r] =
               IF req[r].rows = {} THEN Respond(req[r], HandlerNotFound)
               ELSE Respond(req[r], TaskJson(req[r].rows))]
  /\ UNCHANGED <<tasks, seq, now, served>>

\* remove: a validated id, then the delete of its row
Remove(r) ==
  /\ Running(r, "remove")
  /\ LET c == Enter(req[r], "remove")
     IN  req' = [req EXCEPT ![r] =
                   IF IdParam(c.path) = 0 THEN Respond(c, ZodError) ELSE Issue(c)]
  /\ UNCHANGED <<tasks, seq, now, served>>

\* the store executes the DELETE of remove, or its promise rejects with
\* nothing deleted
Delete(r) ==
  /\ Pending(r, "remove")
  /\ \/ LET gone == RowsById(IdParam(req[r].path))
        IN  /\ tasks' = tasks \ gone
            /\ req' = [req EXCEPT ![r] = Executed(req[r], gone)]
     \/ /\ req' = [req EXCEPT ![r] = Rejected(req[r])]
        /\ UNCHANGED tasks
  /\ UNCHANGED <<seq, now, served>>

\* remove resumes: no content, or not found when no row was deleted
RemoveResume(r) ==
  /\ Resumed(r, "remove")
  /\ req' = [req EXCEPT ![r] =
               IF req[r].rows = {} THEN Respond(req[r], HandlerNotFound)
               ELSE Respond(req[r], Response(204, "none", "none", {}))]
  /\ UNCHANGED <<tasks, seq, now, served>>

(***************************************************************************)
(* The documentation routes of configureOpenAPI.                           *)
(***************************************************************************)
\* app.doc("/doc"): the OpenAPI document
Doc(r) ==
  /\ Running(r, "doc")
  /\ req' = [req EXCEPT ![r] =
               Respond(Enter(req[r], "doc"),
                       Response(200, "openapi", "application/json", {}))]
  /\ UNCHANGED <<tasks, seq, now, served>>

\* /reference and /llms: the Scalar page
Reference(r) ==
  /\ \E h \in {"reference", "llms"} :
        /\ Running(r, h)
        /\ req' = [req EXCEPT ![r] =
                     Respond(Enter(req[r], h),
                             Response(200, "scalar", "text/html", {}))]
  /\ UNCHANGED <<tasks, seq, now, served>>

\* what generating the plain-text documentation may do
LlmsOutcomes == {"markdown", "document-throws", "markdown-rejects"}

\* the handler without its try/catch
LlmsTxtStepNoCatch(c, outcome) ==
  IF outcome = "markdown"
  THEN Respond(c, Response(200, "markdown", "text/plain", {}))
  ELSE Throw(c, 0)

\* /llms.txt: try { document; markdown; 200 text } catch { 500 text }
LlmsTxtStep(c, outcome) ==
  IF outcome = "markdown"
  THEN Respond(c, Response(200, "markdown", "text/plain", {}))
  ELSE Respond(c, Response(500, "Error generating API documentation", "text/plain", {}))

\* /llms.txt up to its await: getOpenAPI31Document runs at once and may
\* throw; createMarkdownFromOpenApi is called and the handler is suspended
LlmsTxt(r) ==
  /\ Running(r, "llmsTxt")
  /\ \E outcome \in {"document", "document-throws"} :
        LET c == [Enter(req[r], "llmsTxt") EXCEPT !.out = outcome]
        IN  req' = [req EXCEPT ![r] =
                      IF outcome = "document-throws" THEN LlmsTxtStep(c, outcome)
                      ELSE [c EXCEPT !.pc = "markdown"]]
  /\ UNCHANGED <<tasks, seq, now, served>>

\* the promise of createMarkdownFromOpenApi settles
LlmsTxtResume(r) ==
  /\ req[r].pc = "markdown"
  /\ \E outcome \in LlmsOutcomes \ {"document-throws"} :
        req' = [req EXCEPT ![r] = LlmsTxtStep([req[r] EXCEPT !.out = outcome], outcome)]
  /\ UNCHANGED <<tasks, seq, now, served>>

(***************************************************************************)
(* The specification.                                                      *)
(***************************************************************************)
Next ==
  \E r \in Reqs :
       \/ Receive(r)
       \/ ServeEmojiFavicon(r)
       \/ PinoLogger(r)
       \/ Cors(r)
       \/ SessionBegin(r)
       \/ SessionResume(r)
       \/ AuthRoute(r)
       \/ AuthSettle(r)
       \/ IndexRoute(r)
       \/ List(r)
       \/ GetOne(r)
       \/ Select(r)
       \/ ListResume(r)
       \/ GetOneResume(r)
       \/ Create(r)
       \/ Insert(r)
       \/ CreateResume(r)
       \/ Patch(r)
       \/ Update(r)
       \/ PatchResume(r)
       \/ Remove(r)
       \/ Delete(r)
       \/ RemoveResume(r)
       \/ Doc(r)
       \/ Reference(r)
       \/ LlmsTxt(r)
       \/ LlmsTxtResume(r)
       \/ NotFound(r)
       \/ OnError(r)

Spec == Init /\ [][Next]_vars

(***************************************************************************)
(* The server with requests in flight at the same time.  The event loop    *)
(* runs one continuation at a time; between two of them, at an await, any  *)
(* other request may run.  The store executes a statement in one step, at  *)
(* some moment between its issue and the resumption of its handler: it is  *)
(* the collaborator that orders the statements of concurrent requests.     *)
(***************************************************************************)
\* the requests of the concurrent clients: a create and a list on the store,
\* a sign-in under /api/auth, and a path nothing is registered for
ConcRequests ==
  { <<"POST", <<"api", "tasks">> >>,
    <<"GET", <<"api", "tasks">> >>,
    <<"GET", <<"api", "auth", "sign-in">> >>,
    <<"GET", <<"nope">> >> }

\* the bodies the concurrent clients send to create: two the create shape
\* accepts and one it refuses
ConcBodies ==
  { Object(JString(<<"a">>), Absent, Absent, Absent),
    Object(JString(<<"b">>), JBool(TRUE), Absent, Absent),
    Object(Absent, JBool(TRUE), Absent, Absent) }

\* create, for the bodies of the concurrent clients
ConcCreate(r) == CreateOf(r, ConcBodies)

\* serve({ fetch: app.fetch }): a request arrives while another is in flight
ConcReceive(r) ==
  /\ req[r].pc \in {"idle", "done"}
  /\ served < MaxRequests
  /\ served' = served + 1
  /\ \E rq \in ConcRequests :
        req' = [req EXCEPT ![r] = NewContext(rq[1], rq[2])]
  /\ UNCHANGED <<tasks, seq, now>>

ConcNext ==
  \E r \in AllReqs :
       \/ ConcReceive(r)
       \/ ServeEmojiFavicon(r)
       \/ PinoLogger(r)
       \/ Cors(r)
       \/ SessionBegin(r)
       \/ SessionResume(r)
       \/ AuthRoute(r)
       \/ AuthSettle(r)
       \/ List(r)
       \/ Select(r)
       \/ ListResume(r)
       \/ ConcCreate(r)
       \/ Insert(r)
       \/ CreateResume(r)
       \/ NotFound(r)
       \/ OnError(r)

ConcSpec == Init /\ [][ConcNext]_vars

(***************************************************************************)
(* Vocabulary of the properties.                                           *)
(***************************************************************************)
\* the position of the session middleware among the handlers of the request
SessionIndex(c) == CHOOSE k \in 1..Len(c.matched) : c.matched[k] = "session"

\* the session middleware has come back from its await
SessionEnded(c) == c.sessionOut # "none"

\* the session middleware has called next()
SessionPassedOn(c) == c.sessionOut \in {"data", "null"} /\ c.i > SessionIndex(c)

\* the stage a handler belongs to
StageOf(h) == IF h \in RouterHandlers \cup DocHandlers THEN "route" ELSE h

\* the order of the stages
StageRank(stage) ==
  CASE stage = "favicon" -> 0
    [] stage = "logger" -> 1
    [] stage = "cors" -> 2
    [] stage = "session" -> 3
    [] stage = "auth" -> 4
    [] stage = "route" -> 5
    [] stage = "notFound" -> 6
    [] OTHER -> 7

(***************************************************************************)
(* C1: whatever getSession does (a session, nothing, a failure), the       *)
(* session middleware ends by calling next(), and when no session was      *)
(* obtained both user and session are null in the context.                 *)
(* The code lets a rejection of getSession escape: the request goes to     *)
(* onError with user and session never set.                                *)
(***************************************************************************)
C1_SessionStageNeverAborts ==
  \A r \in AllReqs :
     LET c == req[r]
     IN  SessionEnded(c) =>
           /\ SessionPassedOn(c)
           /\ c.sessionOut \in {"null", "throws"} => (c.user = "null" /\ c.session = "null")

(***************************************************************************)
(* C2: a request whose path is under /api/auth/, whatever its method,      *)
(* never has a handler of a router mounted under /api entered.             *)
(***************************************************************************)
C2_AuthPathsNeverReachRouters ==
  \A r \in AllReqs :
     IsAuthPath(req[r].path) =>
       \A k \in 1..Len(req[r].trace) : req[r].trace[k] \notin RouterHandlers

\* a PUT under /api/auth/ that looks like a task path, answered not found
C2_Witness ==
  \E r \in AllReqs :
     /\ req[r].pc = "done"
     /\ req[r].path = <<"api", "auth", "tasks", "1">>
     /\ req[r].method = "PUT"
     /\ req[r].res.status = 404

(***************************************************************************)
(* C3: every finished request whose path matches /api/auth/* was delegated *)
(* to auth.handler, and when auth.handler answered, the response sent has  *)
(* the status, the body and the content type of its answer.                *)
(* The code registers the auth handler for POST and GET only: a request of *)
(* another method under /api/auth/* is never delegated (it is answered     *)
(* not found, or 204 by the CORS stage when it is OPTIONS).                *)
(***************************************************************************)
C3_EveryAuthRequestDelegated ==
  \A r \in AllReqs :
     LET c == req[r]
     IN  (c.pc = "done" /\ IsAuthPath(c.path) /\ SessionPassedOn(c)) =>
           /\ Entered(c, "auth")
           /\ c.authRes \in AuthResponses =>
                /\ c.res.status = c.authRes.status
                /\ c.res.body = Sent(c.method, c.authRes).body
                /\ c.res.ctype = c.authRes.ctype

(***************************************************************************)
(* C4: the handlers of a request are entered in the one order favicon,     *)
(* logger, CORS, session, auth, route, not-found, each at most once; CORS  *)
(* and auth only under /api/auth/, and CORS there before the session       *)
(* stage; a route handler or the auth handler is entered only after the    *)
(* session stage has set user and session; not-found only when no route    *)
(* handler was entered.                                                    *)
(***************************************************************************)
C4_StagesInOrder ==
  \A r \in AllReqs :
     LET c == req[r]
         n == Len(c.trace)
     IN  /\ \A j, k \in 1..n :
              j < k => StageRank(StageOf(c.trace[j])) < StageRank(StageOf(c.trace[k]))
         /\ (Entered(c, "cors") \/ Entered(c, "auth")) => IsAuthPath(c.path)
         /\ (Entered(c, "session") /\ IsAuthPath(c.path)) => Entered(c, "cors")
         /\ \A k \in 1..n :
              StageOf(c.trace[k]) \in {"auth", "route"} =>
                /\ \E j \in 1..(k - 1) : c.trace[j] = "session"
                /\ SessionPassedOn(c)
                /\ c.user # "unset" /\ c.session # "unset"
         /\ Entered(c, "notFound") =>
              \A k \in 1..n : StageOf(c.trace[k]) \notin {"auth", "route"}

\* a GET under /api/auth/ that went through every stage up to auth
C4_Witness ==
  \E r \in AllReqs :
     /\ req[r].pc = "done"
     /\ req[r].trace = <<"favicon", "logger", "cors", "session", "auth">>

(***************************************************************************)
(* Steps of the task handlers, for the properties about their effect on    *)
(* the store: HandlerStep, then Pending and Resumed of the handlers.       *)
(***************************************************************************)
\* the step in which slot r runs handler h up to its response or its await
HandlerStep(r, h) ==
  /\ req[r].pc = "run"
  /\ Current(req[r]) = h
  /\ req'[r].pc # "run"

Updatable == {"name", "completed"}

\* the body carries none of the updatable fields
NoUpdatableField(body) == ObjectKeys(body) \cap Updatable = {}

(***************************************************************************)
(* C5 as stated: a PATCH whose body has none of the updatable fields is    *)
(* answered with a validation error, and the partial-update shape refuses  *)
(* such a body (it accepts a body only if name or completed is present).   *)
(***************************************************************************)
C5_ShapeRequiresAField ==
  \A r \in AllReqs :
     LET c == req[r]
     IN  (c.pc = "done" /\ LastEntered(c) = "patch" /\ NoUpdatableField(c.body)) =>
           /\ c.res.status = 422
           /\ ~SafeParseOk(patchTasksSchema, c.body)

(***************************************************************************)
(* C5 as amended: the partial-update shape accepts a body with none of the *)
(* updatable fields (all its fields are optional); the update handler      *)
(* answers such a PATCH 422, with the invalid_updates error when the id is *)
(* valid, and the step leaves the persisted tasks as they were.            *)
(***************************************************************************)
C5_EmptyPatchRejected ==
  [][\A r \in AllReqs :
       (HandlerStep(r, "patch") /\ NoUpdatableField(req'[r].body)) =>
         /\ SafeParseOk(patchTasksSchema, req'[r].body)
         /\ req'[r].pc = "done"
         /\ req'[r].res.status = 422
         /\ IdParam(req[r].path) # 0 => req'[r].res = InvalidUpdates
         /\ tasks' = tasks]_vars

\* a PATCH {} on an existing task, answered invalid_updates
C5_Witness ==
  \E r \in AllReqs :
     /\ req[r].pc = "done"
     /\ LastEntered(req[r]) = "patch"
     /\ req[r].body = EmptyObject
     /\ RowsById(IdParam(req[r].path)) # {}
     /\ req[r].res = InvalidUpdates

(***************************************************************************)
(* C6: after any sequence of creates, updates and deletes, no two          *)
(* persisted tasks share an id, and id, name, completed, createdAt and     *)
(* updatedAt of every persisted task are non-null.                         *)
(***************************************************************************)
C6_RowsUniqueAndNotNull ==
  \A t \in tasks :
     /\ \A u \in tasks : u["id"] = t["id"] => u = t
     /\ \A k \in Keys : t[k] \notin {JNull, Absent}

\* two tasks, one of them as only an update leaves it: created from
\* {name: "a"}, then completed
C6_Witness ==
  /\ Cardinality(tasks) = 2
  /\ \E t \in tasks : t["name"] = JString(<<"a">>) /\ t["completed"] = JBool(TRUE)

C8_CreateFromNameOnly ==
  [][\A r \in AllReqs :
       LET NameOnly(body) ==
             /\ ObjectKeys(body) = {"name"}
             /\ body["name"].type = "string"
             /\ Len(body["name"].s) <= NameMaxLen
       IN  /\ (HandlerStep(r, "create") /\ NameOnly(req'[r].body)) => req'[r].pc = "store"
           /\ (Pending(r, "create") /\ NameOnly(req[r].body) /\ req'[r] # req[r]) =>
                \/ /\ req'[r].pc = "stored"
                   /\ \E row \in req'[r].rows :
                        /\ req'[r].rows = {row}
                        /\ row \in tasks'
                        /\ row["name"] = req[r].body["name"]
                        /\ row["completed"] = JBool(FALSE)
                        /\ row["id"].type = "number"
                        /\ \A t \in tasks : t["id"] # row["id"]
                        /\ row["createdAt"].type = "number"
                        /\ row["createdAt"] = row["updatedAt"]
                \/ /\ req'[r].pc = "error"
                   /\ req'[r].out = "store-rejects"
                   /\ tasks' = tasks
           /\ (Resumed(r, "create") /\ req'[r] # req[r]) =>
                /\ req'[r].pc = "done"
                /\ req'[r].res.status = 200
                /\ req'[r].res.data = req[r].rows
           /\ (req[r].pc = "error" /\ LastEntered(req[r]) = "create" /\ req'[r] # req[r]) =>
                /\ req'[r].pc = "done"
                /\ req'[r].res.status = 500
                /\ tasks' = tasks]_vars

\* a second task created from {name: "a"} alone
C8_Witness ==
  \E r \in AllReqs :
     /\ req[r].pc = "done"
     /\ LastEntered(req[r]) = "create"
     /\ req[r].body = Object(JString(<<"a">>), Absent, Absent, Absent)
     /\ req[r].res.status = 200
     /\ Cardinality(tasks) = 2

(***************************************************************************)
(* C9: the /llms.txt handler, once entered, is suspended at its conversion *)
(* or has completed with a response of its own: 200 with the markdown as   *)
(* text/plain when generation succeeds, 500 plain text when deriving the   *)
(* document throws or the conversion rejects; the failure never reaches    *)
(* the error handler.  (A HEAD request is dispatched as a GET and is sent   *)
(* the same status and content type without the body.)                     *)
(***************************************************************************)
C9_LlmsTxtDegrades ==
  \A r \in AllReqs :
     LET c == req[r]
     IN  Entered(c, "llmsTxt") =>
           /\ c.pc \in {"markdown", "done"}
           /\ LastEntered(c) = "llmsTxt"
           /\ c.pc = "markdown" => c.out = "document"
           /\ c.pc = "done" =>
                /\ c.out \in LlmsOutcomes
                /\ c.out = "markdown" =>
                     c.res = Sent(c.method, Response(200, "markdown", "text/plain", {}))
                /\ c.out # "markdown" =>
                     c.res = Sent(c.method,
                                  Response(500, "Error generating API documentation",
                                           "text/plain", {}))

\* the conversion to markdown rejected and the request was answered 500
C9_Witness ==
  \E r \in AllReqs :
     /\ Entered(req[r], "llmsTxt")
     /\ req[r].out = "markdown-rejects"
     /\ req[r].res.status = 500

(***************************************************************************)
(* C10: a request whose method and path match no registered route and     *)
(* that the session stage has passed on is answered by the not-found       *)
(* handler with the uniform 404 JSON response, and no route handler is     *)
(* entered for it.  A HEAD request matches the routes of GET, and the      *)
(* response sent to it has no body.                                        *)
(***************************************************************************)
C10_UnmatchedGetsNotFound ==
  \A r \in AllReqs :
     LET c == req[r]
     IN  (c.pc = "done" /\ ~HasRoute(c.method, c.path) /\ SessionPassedOn(c)) =>
           /\ LastEntered(c) = "notFound"
           /\ c.res.status = 404
           /\ c.res.body = IF c.method = "HEAD" THEN "none" ELSE "Not Found - path"
           /\ c.res.ctype = "application/json"
           /\ c.res.data = {}
           /\ \A k \in 1..Len(c.trace) : StageOf(c.trace[k]) \notin {"auth", "route"}

\* a PUT on /api/tasks, a path with routes for other methods only, with a
\* session
C10_Witness ==
  \E r \in AllReqs :
     /\ req[r].pc = "done"
     /\ req[r].method = "PUT"
     /\ req[r].path = <<"api", "tasks">>
     /\ req[r].session = "s-bob"
     /\ req[r].res.status = 404
     /\ req[r].res.body = "Not Found - path"

(***************************************************************************)
(* C11: with requests in flight at the same time, under every              *)
(* interleaving, a step of one request changes the context of no other     *)
(* request (what it changes besides its own context is the store); user    *)
(* and session of a request change only when its own getSession settles or *)
(* when its slot takes a new request; and at every moment they are the     *)
(* values its own getSession gave, or unset while it has given none.       *)
(***************************************************************************)
C11_RequestsIndependent ==
  [][\A r \in AllReqs :
       /\ req'[r] # req[r] => \A q \in AllReqs \ {r} : req'[q] = req[q]
       /\ (req'[r].user # req[r].user \/ req'[r].session # req[r].session) =>
            \/ req[r].pc = "getSession" /\ req'[r].sessionOut \in {"data", "null"}
            \/ req[r].pc = "done" /\ req'[r].trace = <<>>
       /\ IF req'[r].sessionOut \in {"data", "null"}
          THEN /\ req'[r].user = req'[r].sessionData.user
               /\ req'[r].session = req'[r].sessionData.session
          ELSE /\ req'[r].user = "unset"
               /\ req'[r].session = "unset"]_vars

\* two requests in flight past their session middleware, each with the user
\* and session of its own getSession: one suspended at its INSERT, which the
\* store has not executed yet, the other resumed with the rows of its SELECT
C11_Witness ==
  /\ Pending("r1", "create")
  /\ Resumed("r2", "list")
  /\ req["r1"].user = "alice" /\ req["r1"].session = "s-alice"
  /\ req["r2"].user = "bob" /\ req["r2"].session = "s-bob"
  /\ tasks # {}

(***************************************************************************)
(* C12: whenever the auth handler, a route handler or the not-found        *)
(* producer is about to run or has run for a request, user and session of  *)
(* its context are both set, and they are both null or both the values of  *)
(* the one result its getSession gave; never exactly one of them is null.  *)
(***************************************************************************)
C12_UserAndSessionPaired ==
  \A r \in AllReqs :
     LET c == req[r]
         AfterSession(h) == StageOf(h) \in {"auth", "route", "notFound"}
     IN  (\/ \E k \in 1..Len(c.trace) : AfterSession(c.trace[k])
          \/ c.pc = "run" /\ AfterSession(Current(c))) =>
           /\ c.user # "unset"
           /\ c.session # "unset"
           /\ (c.user = "null") <=> (c.session = "null")
           /\ \/ /\ c.sessionData.kind = "null"
                 /\ c.user = "null"
                 /\ c.session = "null"
              \/ /\ c.sessionData \in SessionData
                 /\ c.user = c.sessionData.user
                 /\ c.session = c.sessionData.session

\* a list answered for a request whose getSession gave alice and her session
C12_Witness ==
  \E r \in AllReqs :
     /\ req[r].pc = "done"
     /\ LastEntered(req[r]) = "list"
     /\ req[r].sessionData.kind = "data"
     /\ req[r].user = "alice"
     /\ req[r].session = "s-alice"

====
